---------------------------- MODULE Spec2Model ----------------------------
(***************************************************************************)
(* The Streamlit dashboard of src/app.py as a state machine.                *)
(*                                                                          *)
(* The process holds two CSV files and the two st.cache_data stores; each   *)
(* browser session holds its widget values and its st.session_state.  One   *)
(* user interaction is one run of the script from its first line to its     *)
(* last (or to the first uncaught exception).                               *)
(*                                                                          *)
(* Numbers: a cell of a metric column is Val(n) or NaN (an empty CSV cell). *)
(* The products x*0.6 and y*0.9 are kept exactly, in tenths (x*6, y*9); a   *)
(* mean is kept as the fraction num/den.                                    *)
(***************************************************************************)
EXTENDS Integers, Sequences, FiniteSets, TLC

VARIABLES
    countryFile,      \* countrylevel.csv on disk
    industryFile,     \* industrylevel.csv on disk
    cacheCountry,     \* st.cache_data store of load_data
    cacheIndustry,    \* st.cache_data store of load_industry_data
    firstLoad,        \* history: what the first successful load of each file returned
    live,             \* the browser sessions that may connect
    widgets,          \* per session: the widget values
    session_state,    \* per session: st.session_state (key -> value)
    clicks,           \* history, per session: clicks made on each button
    runs,             \* history: script runs made so far, by all sessions
    page              \* per session: what the last script run computed and displayed

vars == <<countryFile, industryFile, cacheCountry, cacheIndustry, firstLoad,
          live, widgets, session_state, clicks, runs, page>>

----------------------------------------------------------------------------
(* Bounds of the model *)

MaxRuns == 5
MaxRows == 3
MaxBigRows == 12

Sessions == {"s1", "s2"}

(* rank <= 10, line 226 *)
K == 10

\* the years that occur in the input files of the model
Years == {2020, 2021}

----------------------------------------------------------------------------
(* Cell values *)

Val(n) == [nan |-> FALSE, v |-> n]
NaN == [nan |-> TRUE, v |-> 0]

IntCell(n) == [k |-> "int", v |-> n]
FloatCell(tenths) == [k |-> "float", v |-> tenths]
StrCell == [k |-> "str", v |-> 0]
NanCell == [k |-> "nan", v |-> 0]

Indices(s) == 1..Len(s)

----------------------------------------------------------------------------
(* The data loaders: pd.read_csv, astype(int), st.cache_data *)

NoCache == [hit |-> FALSE, df |-> <<>>]

\* int(cell) of astype(int): a float is truncated, text and NaN cannot be cast
CanCast(cell) == cell.k \in {"int", "float"}
Cast(cell) == IF cell.k = "float" THEN cell.v \div 10 ELSE cell.v

Coercible(rows) == \A i \in Indices(rows) : CanCast(rows[i].year)

astype_int(rows) ==
    [i \in Indices(rows) |-> [rows[i] EXCEPT !.year = Cast(rows[i].year)]]

\* a bug that load_data could have: cast the cells that can be cast, keep the
\* others as 0, and return and cache that table
cached_load_lenient(cache, file) ==
    IF cache.hit THEN [err |-> "", df |-> cache.df, cache |-> cache]
    ELSE IF ~file.exists
         THEN [err |-> "FileNotFoundError", df |-> <<>>, cache |-> cache]
    ELSE LET df == [i \in Indices(file.rows) |->
                      [file.rows[i] EXCEPT !.year =
                          IF CanCast(file.rows[i].year)
                          THEN Cast(file.rows[i].year) ELSE 0]]
         IN [err |-> "", df |-> df, cache |-> [hit |-> TRUE, df |-> df]]

\* the body of a loader under @st.cache_data: a hit returns the stored table;
\* a miss reads and casts, and stores the result only when no exception left
\* the body
cached_load(cache, file) ==
    IF cache.hit THEN [err |-> "", df |-> cache.df, cache |-> cache]
    ELSE IF ~file.exists
         THEN [err |-> "FileNotFoundError", df |-> <<>>, cache |-> cache]
    ELSE IF ~Coercible(file.rows)
         THEN [err |-> "ValueError", df |-> <<>>, cache |-> cache]
    ELSE LET df == astype_int(file.rows)
         IN [err |-> "", df |-> df, cache |-> [hit |-> TRUE, df |-> df]]

load_data_lenient(cache, file) == cached_load_lenient(cache, file)

load_data(cache, file) == cached_load(cache, file)
load_industry_data(cache, file) == cached_load(cache, file)

----------------------------------------------------------------------------
(* Ranking: lines 216-227 *)

metric_map(label) ==
    CASE label = "Climate Commitment Intensity Index (CCII)" -> "ccii"
      [] label = "Greenwashing Index (GWE)" -> "gwe"
      [] label = "Greenwashing Index (GWGHG)" -> "gwghg"

MetricLabels == {"Climate Commitment Intensity Index (CCII)",
                 "Greenwashing Index (GWE)",
                 "Greenwashing Index (GWGHG)"}

\* the rows of row i's year that have a value in the column (rank skips NaN)
Group(df, metric, i) ==
    {j \in Indices(df) : df[j].year = df[i].year /\ ~df[j][metric].nan}

\* method="min": tied rows share the lowest rank of their run
rank_min(df, metric, i) ==
    IF df[i][metric].nan THEN NaN
    ELSE Val(1 + Cardinality({j \in Group(df, metric, i) :
                                 df[j][metric].v > df[i][metric].v}))

\* method="first" taken on the reversed ascending order: the later of two
\* tied rows gets the lower rank
rank_last(df, metric, i) ==
    IF df[i][metric].nan THEN NaN
    ELSE Val(1 + Cardinality({j \in Group(df, metric, i) :
                                 df[j][metric].v > df[i][metric].v})
               + Cardinality({j \in Group(df, metric, i) :
                                 j > i /\ df[j][metric].v = df[i][metric].v}))

\* groupby("year")[metric].rank(method="first", ascending=False) at row i:
\* the 1-based place in the year's descending order, ties in order of
\* appearance; NaN stays NaN (na_option="keep")
rank(df, metric, i) ==
    IF df[i][metric].nan THEN NaN
    ELSE Val(1 + Cardinality({j \in Group(df, metric, i) :
                                 df[j][metric].v > df[i][metric].v})
               + Cardinality({j \in Group(df, metric, i) :
                                 j < i /\ df[j][metric].v = df[i][metric].v}))

\* the "rank" column, line 220
rank_column(df, metric) == [i \in Indices(df) |-> rank(df, metric, i)]

\* df_rank after line 224: the copy with its new column
with_rank(df, metric) ==
    [i \in Indices(df) |-> df[i] @@ ("rank" :> rank(df, metric, i))]

\* df_rank[df_rank["rank"] <= 10]: a comparison with NaN is False
Top(r) == ~r.rank.nan /\ r.rank.v <= K
top_k(ranked) == SelectSeq(ranked, Top)

\* sort_values(["country", "year"]), rows of equal key in their given order
KeyLess(a, b) ==
    a.country < b.country \/ (a.country = b.country /\ a.year < b.year)
KeyEq(a, b) == a.country = b.country /\ a.year = b.year
Place(s, i) ==
    1 + Cardinality({j \in Indices(s) : KeyLess(s[j], s[i])})
      + Cardinality({j \in Indices(s) : j < i /\ KeyEq(s[j], s[i])})
sort_values(s) ==
    [p \in Indices(s) |-> s[CHOOSE i \in Indices(s) : Place(s, i) = p]]

\* a bug the ranking could have: keep the table of the earlier run when
\* there is one
df_rank_kept(earlier, df, metric) ==
    IF earlier # <<>> THEN earlier
    ELSE sort_values(top_k(with_rank(df, metric)))

\* df_rank of this run, lines 218-227; `earlier` is the df_rank of the
\* session's previous run, which the script does not read
df_rank(earlier, df, metric) == sort_values(top_k(with_rank(df, metric)))

\* df_rank = df (no copy): the new column lands in df itself
df_aliased(df, metric) == with_rank(df, metric)

\* df after lines 218-227: df_rank is df.copy(), so df is as loaded
df_after_rank(df, metric) == df

----------------------------------------------------------------------------
(* Quadrant layout of the industry scatter: lines 278-338 *)

color_metric_map(label) ==
    CASE label = "Greenwashing Index (GWE)" -> "gwe"
      [] label = "Greenwashing Index (GWGHG)" -> "gwghg"

ColorLabels == {"Greenwashing Index (GWE)", "Greenwashing Index (GWGHG)"}

\* the rows that have a value in the column: pandas reductions skip NaN
Present(df, col) == {i \in Indices(df) : ~df[i][col].nan}
Values(df, col) == {df[i][col].v : i \in Present(df, col)}

\* Series.max() / Series.min(): NaN when no value is present
col_max(df, col) ==
    IF Present(df, col) = {} THEN NaN
    ELSE Val(CHOOSE m \in Values(df, col) : \A x \in Values(df, col) : x <= m)
col_min(df, col) ==
    IF Present(df, col) = {} THEN NaN
    ELSE Val(CHOOSE m \in Values(df, col) : \A x \in Values(df, col) : m <= x)

RECURSIVE col_sum(_, _, _)
col_sum(df, col, n) ==
    IF n = 0 THEN 0
    ELSE (IF df[n][col].nan THEN 0 ELSE df[n][col].v) + col_sum(df, col, n - 1)

\* Series.mean(): the fraction num/den, NaN when no value is present
NaNMean == [nan |-> TRUE, num |-> 0, den |-> 1]
col_mean(df, col) ==
    IF Present(df, col) = {} THEN NaNMean
    ELSE [nan |-> FALSE, num |-> col_sum(df, col, Len(df)),
          den |-> Cardinality(Present(df, col))]

\* the years of a table, and the rows of one year
YearSet(df) == {df[i].year : i \in Indices(df)}
RowsOf(df, yr) == SelectSeq(df, LAMBDA r : r.year = yr)
MinYear(df) == CHOOSE y \in YearSet(df) : \A z \in YearSet(df) : y <= z

\* line 311
x_center == 0

\* a bug y_center could have: the mean of one frame (the first year) only
y_center_one_year(df_ind, y_metric) ==
    IF df_ind = <<>> THEN NaNMean
    ELSE col_mean(RowsOf(df_ind, MinYear(df_ind)), y_metric)

\* line 312
y_center(df_ind, y_metric) == col_mean(df_ind, y_metric)

\* x * 0.6 and y * 0.9, in tenths
scaled(x, c) == IF x.nan THEN NaN ELSE Val(x.v * c)

\* a bug the annotations could have: when no x is negative the low-x labels
\* are moved to the left of the zero line
annotations_special(df_ind, y_metric) ==
    LET xmax == col_max(df_ind, "ccii")
        xmin == col_min(df_ind, "ccii")
        ymax == col_max(df_ind, y_metric)
        ymin == col_min(df_ind, y_metric)
        lowx == IF ~xmin.nan /\ xmin.v >= 0
                THEN scaled(xmax, -6) ELSE scaled(xmin, 6)
    IN << [x |-> scaled(xmax, 6), y |-> scaled(ymax, 9), text |-> "High CCII, High Greenwashing"],
          [x |-> lowx,            y |-> scaled(ymax, 9), text |-> "Low CCII, High Greenwashing"],
          [x |-> lowx,            y |-> scaled(ymin, 9), text |-> "Low CCII, Low Greenwashing"],
          [x |-> scaled(xmax, 6), y |-> scaled(ymin, 9), text |-> "High CCII, Low Greenwashing"] >>

\* lines 324-337
annotations(df_ind, y_metric) ==
    LET xmax == col_max(df_ind, "ccii")
        xmin == col_min(df_ind, "ccii")
        ymax == col_max(df_ind, y_metric)
        ymin == col_min(df_ind, y_metric)
    IN << [x |-> scaled(xmax, 6), y |-> scaled(ymax, 9), text |-> "High CCII, High Greenwashing"],
          [x |-> scaled(xmin, 6), y |-> scaled(ymax, 9), text |-> "Low CCII, High Greenwashing"],
          [x |-> scaled(xmin, 6), y |-> scaled(ymin, 9), text |-> "Low CCII, Low Greenwashing"],
          [x |-> scaled(xmax, 6), y |-> scaled(ymin, 9), text |-> "High CCII, Low Greenwashing"] >>

\* the two dashed lines, lines 314-319
shapes(df_ind, y_metric) ==
    << [x0 |-> Val(x_center), x1 |-> Val(x_center),
        y0 |-> col_min(df_ind, y_metric), y1 |-> col_max(df_ind, y_metric)],
       [x0 |-> col_min(df_ind, "ccii"), x1 |-> col_max(df_ind, "ccii"),
        y0 |-> y_center(df_ind, y_metric), y1 |-> y_center(df_ind, y_metric)] >>

\* px.scatter(..., animation_frame="year"): one frame of points per year
Point(r, y_metric) == [industry |-> r.industry, x |-> r.ccii, y |-> r[y_metric]]
frames(df_ind, y_metric) ==
    [yr \in YearSet(df_ind) |->
        LET rows == RowsOf(df_ind, yr)
        IN [i \in Indices(rows) |-> Point(rows[i], y_metric)]]

NoFig == [frames |-> <<>>, shapes |-> <<>>, annotations |-> <<>>]

\* the figure handed to st.plotly_chart at line 354: the frames hold data
\* only, the shapes and annotations belong to the figure's layout
scatter_fig(df_ind, y_metric) ==
    [frames |-> frames(df_ind, y_metric),
     shapes |-> shapes(df_ind, y_metric),
     annotations |-> annotations(df_ind, y_metric)]

\* what the animation shows at one year
QuadrantFrame(fig, yr) ==
    [year |-> yr, points |-> fig.frames[yr],
     x_ref |-> fig.shapes[1].x0, y_ref |-> fig.shapes[2].y0,
     annotations |-> fig.annotations]

----------------------------------------------------------------------------
(* The map section: lines 97-192 *)

Indicators == {"CCII", "GWE", "GWGHG"}
Modes == {"Single Year", "Animate Over Years"}

indicator_config(indicator) ==
    CASE indicator = "CCII" -> "ccii"
      [] indicator = "GWE" -> "gwe"
      [] indicator = "GWGHG" -> "gwghg"

\* 0 stands for None: the year selectbox is absent or has no option
NoYear == 0

\* st.selectbox("Select Year", sorted(df["year"].unique())): the value the
\* user chose while it is an option, else the first option
select_year(df, mode, chosen) ==
    IF mode # "Single Year" \/ df = <<>> THEN NoYear
    ELSE IF chosen \in YearSet(df) THEN chosen ELSE MinYear(df)

NoMap == [rows |-> <<>>, color |-> "", animated |-> FALSE]

choropleth(df, indicator, mode, year) ==
    [rows |-> IF mode = "Single Year" THEN RowsOf(df, year) ELSE df,
     color |-> indicator_config(indicator),
     animated |-> mode # "Single Year"]

----------------------------------------------------------------------------
(* The click counters: lines 380-395 *)

NoState == <<>>

Has(ss, key) == key \in DOMAIN ss

\* a bug the counters could have: the second button adds to like_count
counters_crossed(ss, likeClicked, starClicked) ==
    LET s1 == IF Has(ss, "like_count") THEN ss ELSE ss @@ ("like_count" :> 0)
        s2 == IF Has(s1, "star_count") THEN s1 ELSE s1 @@ ("star_count" :> 0)
        s3 == IF likeClicked THEN [s2 EXCEPT !["like_count"] = @ + 1] ELSE s2
    IN IF starClicked THEN [s3 EXCEPT !["like_count"] = @ + 1] ELSE s3

counters(ss, likeClicked, starClicked) ==
    LET s1 == IF Has(ss, "like_count") THEN ss ELSE ss @@ ("like_count" :> 0)
        s2 == IF Has(s1, "star_count") THEN s1 ELSE s1 @@ ("star_count" :> 0)
        s3 == IF likeClicked THEN [s2 EXCEPT !["like_count"] = @ + 1] ELSE s2
    IN IF starClicked THEN [s3 EXCEPT !["star_count"] = @ + 1] ELSE s3

----------------------------------------------------------------------------
(* One run of the script, top to bottom *)

DefaultWidgets ==
    [indicator |-> "CCII", mode |-> "Single Year", year |-> NoYear,
     metric_label |-> "Climate Commitment Intensity Index (CCII)",
     color_label |-> "Greenwashing Index (GWE)"]

BlankPage ==
    [ran |-> FALSE, error |-> "", sections |-> {},
     df |-> <<>>, map |-> NoMap, rank |-> <<>>, df_rank |-> <<>>,
     df_ind |-> <<>>, fig |-> NoFig, shown |-> <<>>]

NoLoads == [country |-> NoCache, industry |-> NoCache]

\* the first table a loader returned
Noted(first, res) ==
    IF first.hit \/ res.err # "" THEN first ELSE [hit |-> TRUE, df |-> res.df]

\* The script with widget values w, session state ss and the two button
\* results; earlier is the session's previous page.  An exception raised by a
\* loader is not caught: the run ends there, and what was emitted before it
\* stays on the page with the error.
ScriptRun(w, ss, likeClicked, starClicked, earlier) ==
    LET c == load_data(cacheCountry, countryFile)
    IN IF c.err # ""
       THEN [w |-> w, ss |-> ss, cc |-> c.cache, ci |-> cacheIndustry,
             first |-> firstLoad,
             page |-> [BlankPage EXCEPT !.ran = TRUE, !.error = c.err,
                                        !.sections = {"intro"}]]
       ELSE
       LET df == c.df
           year == select_year(df, w.mode, w.year)
           metric == metric_map(w.metric_label)
           ranked == df_rank(earlier.df_rank, df, metric)
           pg == [BlankPage EXCEPT
                    !.ran = TRUE,
                    !.sections = {"intro", "map", "rank"},
                    !.map = choropleth(df, w.indicator, w.mode, year),
                    !.rank = rank_column(df, metric),
                    !.df_rank = ranked,
                    !.df = df_after_rank(df, metric)]
           d == load_industry_data(cacheIndustry, industryFile)
           first1 == [firstLoad EXCEPT !.country = Noted(@, c)]
       IN IF d.err # ""
          THEN [w |-> [w EXCEPT !.year = year], ss |-> ss,
                cc |-> c.cache, ci |-> d.cache, first |-> first1,
                page |-> [pg EXCEPT !.error = d.err]]
          ELSE
          LET df_ind == d.df
              y_metric == color_metric_map(w.color_label)
              ss1 == counters(ss, likeClicked, starClicked)
          IN [w |-> [w EXCEPT !.year = year], ss |-> ss1,
              cc |-> c.cache, ci |-> d.cache,
              first |-> [first1 EXCEPT !.industry = Noted(@, d)],
              page |-> [pg EXCEPT
                          !.sections = @ \cup {"scatter", "counter", "references"},
                          !.df_ind = df_ind,
                          !.fig = scatter_fig(df_ind, y_metric),
                          !.shown = <<ss1["like_count"], ss1["star_count"]>>]]

Apply(s, w, likeClicked, starClicked) ==
    LET r == ScriptRun(w, session_state[s], likeClicked, starClicked, page[s])
    IN /\ runs < MaxRuns
       /\ runs' = runs + 1
       /\ widgets' = [widgets EXCEPT ![s] = r.w]
       /\ session_state' = [session_state EXCEPT ![s] = r.ss]
       /\ page' = [page EXCEPT ![s] = r.page]
       /\ cacheCountry' = r.cc
       /\ cacheIndustry' = r.ci
       /\ firstLoad' = r.first
       /\ UNCHANGED <<countryFile, industryFile, live>>

Shows(s, section) == page[s].ran /\ section \in page[s].sections

----------------------------------------------------------------------------
(* The interactions *)

\* a browser opens the page: the first run of a session
Start(s) ==
    /\ s \in live
    /\ ~page[s].ran
    /\ Apply(s, widgets[s], FALSE, FALSE)
    /\ UNCHANGED clicks

\* the user reruns the page without changing a widget
Rerun(s) ==
    /\ s \in live
    /\ page[s].ran
    /\ Apply(s, widgets[s], FALSE, FALSE)
    /\ UNCHANGED clicks

SelectIndicator(s, v) ==
    /\ s \in live
    /\ Shows(s, "map")
    /\ v # widgets[s].indicator
    /\ Apply(s, [widgets[s] EXCEPT !.indicator = v], FALSE, FALSE)
    /\ UNCHANGED clicks

SelectMode(s, m) ==
    /\ s \in live
    /\ Shows(s, "map")
    /\ m # widgets[s].mode
    /\ Apply(s, [widgets[s] EXCEPT !.mode = m], FALSE, FALSE)
    /\ UNCHANGED clicks

SelectYear(s, y) ==
    /\ s \in live
    /\ Shows(s, "map")
    /\ widgets[s].mode = "Single Year"
    /\ y \in YearSet(page[s].df)
    /\ y # widgets[s].year
    /\ Apply(s, [widgets[s] EXCEPT !.year = y], FALSE, FALSE)
    /\ UNCHANGED clicks

SelectIndex(s, label) ==
    /\ s \in live
    /\ Shows(s, "rank")
    /\ label # widgets[s].metric_label
    /\ Apply(s, [widgets[s] EXCEPT !.metric_label = label], FALSE, FALSE)
    /\ UNCHANGED clicks

SelectMeasure(s, label) ==
    /\ s \in live
    /\ Shows(s, "scatter")
    /\ label # widgets[s].color_label
    /\ Apply(s, [widgets[s] EXCEPT !.color_label = label], FALSE, FALSE)
    /\ UNCHANGED clicks

ClickLike(s) ==
    /\ s \in live
    /\ Shows(s, "counter")
    /\ Apply(s, widgets[s], TRUE, FALSE)
    /\ clicks' = [clicks EXCEPT ![s].like = @ + 1]

ClickStar(s) ==
    /\ s \in live
    /\ Shows(s, "counter")
    /\ Apply(s, widgets[s], FALSE, TRUE)
    /\ clicks' = [clicks EXCEPT ![s].star = @ + 1]

----------------------------------------------------------------------------
(* Input files *)

File(rows) == [exists |-> TRUE, rows |-> rows]
Missing == [exists |-> FALSE, rows |-> <<>>]

\* the other two metric columns of a country row, derived from ccii so that
\* the three columns order the rows differently
Turn(c) == IF c.nan THEN Val(3) ELSE IF c.v = 3 THEN Val(5) ELSE NaN

CountryRow(n, i, yearCell, c) ==
    [country |-> n + 1 - i, year |-> yearCell,
     ccii |-> c, gwe |-> Turn(c), gwghg |-> Turn(Turn(c))]

\* every table of at most MaxRows rows over two years and three values
SmallCountryTables ==
    UNION { { [i \in 1..n |-> CountryRow(n, i, IntCell(f[i].year), f[i].c)] :
                f \in [1..n -> [year : Years, c : {NaN, Val(3), Val(5)}]] } :
            n \in 0..MaxRows }

\* tables with more than K rows in a year
PatternYear(p, i) ==
    CASE p = 1 -> IntCell(2020)
      [] p = 2 -> IntCell(2020 + (i % 2))
      [] p = 3 -> FloatCell(20205 + 10 * (i % 2))
PatternValue(q, i) ==
    CASE q = 1 -> Val(i % 3)
      [] q = 2 -> Val(i)
      [] q = 3 -> Val(7)
      [] q = 4 -> IF i % 4 = 0 THEN NaN ELSE Val((i * 5) % 7)
BigRow(n, i, p, q) ==
    [country |-> n + 1 - i, year |-> PatternYear(p, i),
     ccii |-> PatternValue(q, i),
     gwe |-> PatternValue(1 + (q % 4), i),
     gwghg |-> PatternValue(1 + ((q + 1) % 4), i)]
BigCountryTables ==
    { [i \in 1..n |-> BigRow(n, i, p, q)] :
        n \in (K + 1)..MaxBigRows, p \in 1..3, q \in 1..4 }

\* the table of the ranking example: A=5, B=5, C=3 in 2020, and D in 2021
ExampleCountryRows ==
    << [country |-> 1, year |-> IntCell(2020), ccii |-> Val(5), gwe |-> Val(1), gwghg |-> NaN],
       [country |-> 2, year |-> IntCell(2020), ccii |-> Val(5), gwe |-> Val(4), gwghg |-> Val(2)],
       [country |-> 3, year |-> IntCell(2020), ccii |-> Val(3), gwe |-> Val(4), gwghg |-> Val(2)],
       [country |-> 1, year |-> IntCell(2021), ccii |-> Val(2), gwe |-> Val(6), gwghg |-> Val(1)] >>

BadYearCountryRows ==
    [ExampleCountryRows EXCEPT ![2].year = StrCell]
NanYearCountryRows ==
    [ExampleCountryRows EXCEPT ![3].year = NanCell]

TurnG(g) ==
    IF g.nan THEN Val(2)
    ELSE IF g.v = 0 THEN Val(10) ELSE IF g.v = 2 THEN NaN ELSE Val(0)

IndustryRow(i, yr, x, g) ==
    [industry |-> i, year |-> IntCell(yr), ccii |-> x, gwe |-> g, gwghg |-> TurnG(g)]

SmallIndustryTables ==
    UNION { { [i \in 1..n |-> IndustryRow(i, f[i].year, f[i].x, f[i].g)] :
                f \in [1..n -> [year : Years, x : {Val(-2), Val(4)},
                                g : {NaN, Val(0), Val(10)}]] } :
            n \in 0..MaxRows }

\* the table of the layout example: ccii in [-2, 4], gwe in [0, 10], mean gwe 4
ExampleIndustryRows ==
    << IndustryRow(1, 2020, Val(-2), Val(0)),
       IndustryRow(2, 2020, Val(4), Val(10)),
       IndustryRow(3, 2021, Val(1), Val(2)) >>

BadYearIndustryRows ==
    [ExampleIndustryRows EXCEPT ![1].year = StrCell]

----------------------------------------------------------------------------
(* Specifications *)

InitWith(cfiles, ifiles, sessions) ==
    /\ countryFile \in cfiles
    /\ industryFile \in ifiles
    /\ cacheCountry = NoCache
    /\ cacheIndustry = NoCache
    /\ firstLoad = NoLoads
    /\ live = sessions
    /\ widgets = [s \in Sessions |-> DefaultWidgets]
    /\ session_state = [s \in Sessions |-> NoState]
    /\ clicks = [s \in Sessions |-> [like |-> 0, star |-> 0]]
    /\ runs = 0
    /\ page = [s \in Sessions |-> BlankPage]

\* the whole page, two sessions, files that load and files that do not
Init ==
    InitWith({Missing, File(BadYearCountryRows), File(NanYearCountryRows),
              File(ExampleCountryRows)},
             {Missing, File(BadYearIndustryRows), File(ExampleIndustryRows),
              File(<<>>)},
             Sessions)

Next ==
    \E s \in Sessions :
        \/ Start(s)
        \/ Rerun(s)
        \/ \E v \in Indicators : SelectIndicator(s, v)
        \/ \E m \in Modes : SelectMode(s, m)
        \/ \E y \in Years : SelectYear(s, y)
        \/ \E l \in MetricLabels : SelectIndex(s, l)
        \/ \E l \in ColorLabels : SelectMeasure(s, l)
        \/ ClickLike(s)
        \/ ClickStar(s)

Spec == Init /\ [][Next]_vars

\* the ranking over many country tables
InitRank ==
    InitWith({File(t) : t \in SmallCountryTables \cup BigCountryTables}
                \cup {File(ExampleCountryRows)},
             {File(ExampleIndustryRows)}, {"s1"})

NextRank ==
    \E s \in Sessions :
        \/ Start(s)
        \/ \E l \in MetricLabels : SelectIndex(s, l)

SpecRank == InitRank /\ [][NextRank]_vars

\* the quadrant layout over many industry tables
InitQuad ==
    InitWith({File(ExampleCountryRows)},
             {File(t) : t \in SmallIndustryTables} \cup {File(ExampleIndustryRows)},
             {"s1"})

NextQuad ==
    \E s \in Sessions :
        \/ Start(s)
        \/ \E l \in ColorLabels : SelectMeasure(s, l)

SpecQuad == InitQuad /\ [][NextQuad]_vars

----------------------------------------------------------------------------
(* Properties *)

Min(a, b) == IF a <= b THEN a ELSE b

Loadable(file) == file.exists /\ Coercible(file.rows)

Metric(s) == metric_map(widgets[s].metric_label)
YMetric(s) == color_metric_map(widgets[s].color_label)

\* the rows of a table in one year, and those of them with a value
InYear(t, yr) == {i \in Indices(t) : t[i].year = yr}
ValuedInYear(t, col, yr) == {i \in InYear(t, yr) : ~t[i][col].nan}

\* the retained ranks of year yr are exactly 1..m, each once
RanksAre(s, yr, m) ==
    LET kept == InYear(page[s].df_rank, yr)
    IN /\ {page[s].df_rank[i].rank.v : i \in kept} = 1..m
       /\ Cardinality(kept) = m

\* every retained row is a row of the loaded table with its rank
NoRowAdded(s) ==
    \A i \in Indices(page[s].df_rank) :
        /\ ~page[s].df_rank[i].rank.nan
        /\ \E j \in Indices(page[s].df) :
              page[s].df_rank[i] = page[s].df[j] @@ ("rank" :> page[s].rank[j])

\* C1 as stated: within every year the retained ranks are exactly 1..m with
\* m = min(number of rows of that year, 10), each rank once, no row added.
C1_RanksOneToM_AllRows ==
    \A s \in live : Shows(s, "rank") =>
        /\ NoRowAdded(s)
        /\ \A yr \in YearSet(page[s].df) :
              RanksAre(s, yr, Min(Cardinality(InYear(page[s].df, yr)), K))

\* C1 as amended: within every year the retained ranks are exactly 1..m with
\* m = min(number of rows of that year that have a value of the selected
\* metric, 10), each rank once; a year with fewer than 10 such rows yields
\* fewer than 10 rows, and no row is added.
C1_RanksOneToM ==
    \A s \in live : Shows(s, "rank") =>
        /\ NoRowAdded(s)
        /\ \A yr \in YearSet(page[s].df) :
              RanksAre(s, yr,
                  Min(Cardinality(ValuedInYear(page[s].df, Metric(s), yr)), K))

\* C1's case: a year with more than 10 valued rows, cut to 10, beside a year
\* of the same table with fewer
C1_Witness ==
    \E s \in live : \E yr \in YearSet(page[s].df) :
        /\ Shows(s, "rank")
        /\ Cardinality(ValuedInYear(page[s].df, Metric(s), yr)) > K
        /\ Cardinality(InYear(page[s].df_rank, yr)) = K
        /\ Len(page[s].df_rank) = K

\* C2: of two rows of one year with equal metric value the one that is first
\* in input order has the lower rank; rows A=5, B=5, C=3 get ranks 1, 2, 3.
C2_TiesByInputOrder ==
    \A s \in live : Shows(s, "rank") =>
        /\ \A i, j \in Indices(page[s].df) :
              ( /\ i < j
                /\ page[s].df[i].year = page[s].df[j].year
                /\ ~page[s].df[i][Metric(s)].nan
                /\ page[s].df[i][Metric(s)] = page[s].df[j][Metric(s)] )
              => page[s].rank[i].v < page[s].rank[j].v
        /\ ( countryFile.rows = ExampleCountryRows /\ Metric(s) = "ccii" )
              => /\ page[s].rank[1] = Val(1)
                 /\ page[s].rank[2] = Val(2)
                 /\ page[s].rank[3] = Val(3)

\* C2's case: the example table ranked by ccii, its two tied rows ranked
C2_Witness ==
    \E s \in live :
        /\ Shows(s, "rank")
        /\ countryFile.rows = ExampleCountryRows
        /\ Metric(s) = "ccii"
        /\ page[s].df[1].ccii = page[s].df[2].ccii
        /\ page[s].rank[1].v = 1 /\ page[s].rank[2].v = 2
        /\ runs > 1

\* equality of two means as numbers
MeanEq(a, b) ==
    /\ a.nan = b.nan
    /\ ~a.nan => a.num * b.den = b.num * a.den

\* m is the greatest (least) value of the column
IsMax(t, col, m) == m \in Values(t, col) /\ \A x \in Values(t, col) : x <= m
IsMin(t, col, m) == m \in Values(t, col) /\ \A x \in Values(t, col) : m <= x

\* the coordinate c is factor * (extreme of the column), in tenths, where the
\* extreme is taken over all rows of the table
AtMax(c, t, col, factor) ==
    IF Values(t, col) = {} THEN c.nan
    ELSE ~c.nan /\ \E m \in Values(t, col) : IsMax(t, col, m) /\ c.v = factor * m
AtMin(c, t, col, factor) ==
    IF Values(t, col) = {} THEN c.nan
    ELSE ~c.nan /\ \E m \in Values(t, col) : IsMin(t, col, m) /\ c.v = factor * m

\* the four anchors a are those of the whole table t, in quadrant order
GlobalAnchors(a, t, y) ==
    /\ Len(a) = 4
    /\ AtMax(a[1].x, t, "ccii", 6) /\ AtMax(a[1].y, t, y, 9)
    /\ AtMin(a[2].x, t, "ccii", 6) /\ AtMax(a[2].y, t, y, 9)
    /\ AtMin(a[3].x, t, "ccii", 6) /\ AtMin(a[3].y, t, y, 9)
    /\ AtMax(a[4].x, t, "ccii", 6) /\ AtMin(a[4].y, t, y, 9)

\* C3: every per-year frame of the scatter has the vertical reference x = 0,
\* the horizontal reference at the mean of the y metric over all rows of all
\* years, and the four anchors of the whole table, the same in every frame.
C3_ReferencesSharedByFrames ==
    \A s \in live : Shows(s, "scatter") =>
        \A yr \in DOMAIN page[s].fig.frames :
            LET f == QuadrantFrame(page[s].fig, yr)
            IN /\ f.x_ref = Val(0)
               /\ MeanEq(f.y_ref, col_mean(page[s].df_ind, YMetric(s)))
               /\ GlobalAnchors(f.annotations, page[s].df_ind, YMetric(s))
               /\ \A yr2 \in DOMAIN page[s].fig.frames :
                     LET g == QuadrantFrame(page[s].fig, yr2)
                     IN /\ g.x_ref = f.x_ref
                        /\ g.y_ref = f.y_ref
                        /\ g.annotations = f.annotations

\* C3's case: two frames whose own means both differ from the mean of the
\* whole table
C3_Witness ==
    \E s \in live :
        /\ Shows(s, "scatter")
        /\ Cardinality(DOMAIN page[s].fig.frames) = 2
        /\ ~col_mean(page[s].df_ind, YMetric(s)).nan
        /\ \A yr \in DOMAIN page[s].fig.frames :
              ~MeanEq(col_mean(RowsOf(page[s].df_ind, yr), YMetric(s)),
                      col_mean(page[s].df_ind, YMetric(s)))

HasNaN(fig) ==
    \/ \E i \in Indices(fig.shapes) :
          fig.shapes[i].x0.nan \/ fig.shapes[i].x1.nan
             \/ fig.shapes[i].y0.nan \/ fig.shapes[i].y1.nan
    \/ \E i \in Indices(fig.annotations) :
          fig.annotations[i].x.nan \/ fig.annotations[i].y.nan

\* C5: when the y column or the ccii column of the loaded industry table has
\* no value, the layout fails with InsufficientDataError and no NaN reaches a
\* reference line or an annotation.
C5_EmptyColumnFails ==
    \A s \in live :
        ( /\ page[s].ran
          /\ cacheIndustry.hit
          /\ \/ Values(cacheIndustry.df, YMetric(s)) = {}
             \/ Values(cacheIndustry.df, "ccii") = {} )
        => /\ page[s].error = "InsufficientDataError"
           /\ ~HasNaN(page[s].fig)

\* C6: a load failure is confined to its own section: when the country data
\* loads the map and the ranking are rendered, when the industry data loads
\* the scatter is rendered, and the counters and references always are.
C6_FailureConfined ==
    \A s \in live : page[s].ran =>
        /\ Loadable(countryFile) => {"map", "rank"} \subseteq page[s].sections
        /\ Loadable(industryFile) => "scatter" \in page[s].sections
        /\ {"counter", "references"} \subseteq page[s].sections

\* C7: in every run the table the loader returned has, at the end of the
\* run, the content the first load returned, which is the file's content
\* with its years cast; so has the cached table.
C7_LoadedTableUnchanged ==
    \A s \in live :
        /\ Shows(s, "map") =>
              /\ firstLoad.country.hit
              /\ firstLoad.country.df = astype_int(countryFile.rows)
              /\ page[s].df = firstLoad.country.df
              /\ cacheCountry.df = firstLoad.country.df
        /\ Shows(s, "scatter") =>
              /\ firstLoad.industry.hit
              /\ page[s].df_ind = firstLoad.industry.df
              /\ cacheIndustry.df = firstLoad.industry.df

\* C7's case: a session that ranked by another metric, filtered by another
\* year and clicked, after another session had loaded the table
C7_Witness ==
    \E s, t \in live :
        /\ s # t /\ page[t].ran
        /\ Shows(s, "rank")
        /\ Metric(s) = "gwghg"
        /\ Len(page[s].df_rank) < Len(page[s].df)
        /\ Len(page[s].map.rows) < Len(page[s].df)
        /\ clicks[s].like > 0

\* C9: a session has no counter before its first run; from then on
\* like_count is the number of clicks on Like in this session and star_count
\* the number of clicks on Really Like in this session.
C9_CountersCountOwnClicks ==
    \A s \in Sessions :
        IF Has(session_state[s], "like_count") \/ Has(session_state[s], "star_count")
        THEN /\ page[s].ran
             /\ DOMAIN session_state[s] = {"like_count", "star_count"}
             /\ session_state[s]["like_count"] = clicks[s].like
             /\ session_state[s]["star_count"] = clicks[s].star
             /\ page[s].shown = <<clicks[s].like, clicks[s].star>>
        ELSE clicks[s].like = 0 /\ clicks[s].star = 0

\* C9's case: one session clicked Like twice, the other Really Like once
C9_Witness ==
    \E s, t \in live :
        /\ s # t
        /\ Shows(s, "counter") /\ Shows(t, "counter")
        /\ session_state[s]["like_count"] = 2
        /\ session_state[s]["star_count"] = 0
        /\ session_state[t]["like_count"] = 0
        /\ session_state[t]["star_count"] = 1

\* C10: the ranked view and the quadrant layout on a page are those of the
\* current selection and the loaded tables; two sessions with the same
\* selection show the same view whatever they selected before.
C10_ViewFromSelection ==
    \A s \in live :
        /\ Shows(s, "rank") =>
              /\ page[s].df_rank =
                    sort_values(top_k(with_rank(cacheCountry.df, Metric(s))))
              /\ \A t \in live :
                    (Shows(t, "rank") /\ Metric(t) = Metric(s))
                    => page[t].df_rank = page[s].df_rank
        /\ Shows(s, "scatter") =>
              /\ page[s].fig = scatter_fig(cacheIndustry.df, YMetric(s))
              /\ \A t \in live :
                    (Shows(t, "scatter") /\ YMetric(t) = YMetric(s))
                    => page[t].fig = page[s].fig

\* C10's case: two sessions that end in the same selection of metric and
\* measure after different interactions (one of them chose another indicator)
C10_Witness ==
    \E s, t \in live :
        /\ s # t
        /\ Shows(s, "scatter") /\ Shows(t, "scatter")
        /\ Metric(s) = "gwe" /\ Metric(t) = "gwe"
        /\ YMetric(s) = YMetric(t)
        /\ page[s].df_rank # <<>>
        /\ widgets[s].indicator # widgets[t].indicator

\* the anchors a and references of the layout example
ExampleLayout(s) ==
    /\ IsMin(page[s].df_ind, "ccii", -2) /\ IsMax(page[s].df_ind, "ccii", 4)
    /\ IsMin(page[s].df_ind, YMetric(s), 0) /\ IsMax(page[s].df_ind, YMetric(s), 10)
    /\ MeanEq(col_mean(page[s].df_ind, YMetric(s)), [nan |-> FALSE, num |-> 4, den |-> 1])

\* C8: the four anchors are (x_max*0.6, y_max*0.9), (x_min*0.6, y_max*0.9),
\* (x_min*0.6, y_min*0.9), (x_max*0.6, y_min*0.9) in that order, whatever the
\* sign of x_min; ccii in [-2, 4], gwe in [0, 10] with mean 4 give y_ref = 4,
\* x_ref = 0 and the top-right anchor (2.4, 9.0).
C8_AnchorsByFormula ==
    \A s \in live : Shows(s, "scatter") =>
        /\ GlobalAnchors(page[s].fig.annotations, page[s].df_ind, YMetric(s))
        /\ ExampleLayout(s) =>
              /\ MeanEq(page[s].fig.shapes[2].y0, [nan |-> FALSE, num |-> 4, den |-> 1])
              /\ page[s].fig.shapes[1].x0 = Val(0)
              /\ page[s].fig.annotations[1].x = Val(24)
              /\ page[s].fig.annotations[1].y = Val(90)

\* C8's case: a table of several rows with no negative ccii, its low-x
\* anchors at x_min * 0.6
C8_Witness ==
    \E s \in live :
        /\ Shows(s, "scatter")
        /\ Len(page[s].df_ind) > 1
        /\ \E m \in Values(page[s].df_ind, "ccii") :
              /\ IsMin(page[s].df_ind, "ccii", m)
              /\ m >= 0
              /\ page[s].fig.annotations[2].x = Val(6 * m)
              /\ page[s].fig.annotations[3].x = Val(6 * m)
        /\ ~page[s].fig.annotations[3].y.nan

============================================================================
